---- MODULE Spec2Model ----
(***************************************************************************)
(* Stream session and MAC-failover engine of MacReplay (src/app-docker.py) *)
(*   - stream_channel: the per-request candidate loop over a portal's MACs *)
(*   - streamData: the generator that occupies a slot, spawns ffmpeg,      *)
(*     streams its stdout and cleans up                                    *)
(*   - moveMac: rotation of a MAC to the back of the portal's MAC dict     *)
(*   - HLSStreamManager: the shared per-channel HLS session registry       *)
(***************************************************************************)
EXTENDS Integers, Sequences, FiniteSets, TLC

\* ------------------------------------------------------------------ bounds
NumMacs == 2          \* MACs configured for the portal
NumReqs == 2          \* request threads that take requests where every interleaving is followed
NumThreads == 3       \* request threads of the WSGI server in use
MaxStreamsPerMac == 1 \* largest "streams per mac" value explored
NumStamps == 2        \* distinct values datetime.now().timestamp() is seen to return
NumKeys == 2          \* (portal, channel) keys asked of the HLS manager
NumViewers == 2       \* threads calling the HLS manager
MaxStreams == 2       \* largest "hls max streams" value (max_streams) explored
InactiveTimeout == 1  \* the setting "hls inactive timeout" (inactive_timeout), in clock ticks
NumDevices == 3       \* devices (client IP and User-Agent) of one XC user
MaxConnections == 2   \* largest max_connections of the XC user explored

Macs == 1..NumMacs
Reqs == 1..NumReqs
Threads == 1..NumThreads
Devices == 1..NumDevices
Keys == 1..NumKeys
Viewers == 1..NumViewers
MaxNow == InactiveTimeout + 1      \* time.time() is followed until a session can be over the timeout
SessionIds == 1..(2 * NumKeys + 1) \* names tempfile.mkdtemp can hand out
Sweeper == NumViewers + 1   \* the monitor thread, as a holder of the lock

\* ------------------------------------------------------------------ state
VARIABLES
  portalMacs,   \* key order of config["portals"][P]["macs"] (a dict: insertion order)
  conf,         \* the portal's "streams per mac", the setting "try all macs" and
                \* max_streams of the HLS manager
  occupied,     \* occupied[P]: the list of stream_info dicts
  rq,           \* per request thread: position in stream_channel / streamData and its locals
  obs,          \* per request thread inside isMacFree: the least and the greatest number of
                \* entries the list has held for its MAC since the loop began (a record of
                \* the run, no state of the program)
  streams,      \* HLSStreamManager.streams: key -> stream_info (NoStream: key absent)
  sess,         \* per session created: its key, its ffmpeg process, whether its temp dir exists
  lock,         \* holders of HLSStreamManager.lock
  now,          \* time.time()
  vw,           \* per viewer thread: position in start_stream and its locals
  sw,           \* the monitor thread: position in _cleanup_inactive_streams / _stop_stream
  xc            \* one XC user: max_connections, active_connections (per device: absent,
                \* active within the last 60 s, or older) and, per device, the position of
                \* its request in xc_stream

playVars == <<portalMacs, conf, occupied, rq, obs>>
hlsVars == <<streams, sess, lock, now, vw, sw>>
vars == <<portalMacs, conf, occupied, rq, obs, streams, sess, lock, now, vw, sw, xc>>

\* ------------------------------------------------------------ pure helpers
Range(s) == {s[i] : i \in 1..Len(s)}

\* isMacFree(): the comparison that follows its loop, count < streamsPerMac
IsMacFreeOffByOne(count, k) == count <= k
IsMacFree(count, k) == count < k

\* the first operand of the loop's test: streamsPerMac == 0
UnlimitedNever(k) == FALSE
Unlimited(k) == k = 0

\* the stream_info dict built by occupy() and by unoccupy(); the requests explored
\* are one client's requests for one channel, so entries differ by mac and start time
\* (of the start times only equality is ever used, by list.remove)
StreamInfo(r) ==
  [mac |-> r.mac, chan |-> "5", client |-> "ip", start |-> r.start]

\* occupy(): occupied[portalId].append(stream_info)
Occupy(occ, e) == Append(occ, e)

\* unoccupy(): occupied[portalId].remove(stream_info) takes out the first equal dict;
\* the ValueError of a list without one is swallowed
Unoccupy(occ, e) ==
  IF \E i \in 1..Len(occ) : occ[i] = e
  THEN LET i == CHOOSE j \in 1..Len(occ) : occ[j] = e /\ \A h \in 1..(j - 1) : occ[h] # e
       IN  SubSeq(occ, 1, i - 1) \o SubSeq(occ, i + 1, Len(occ))
  ELSE occ

\* moveMac, first half: x = macs[mac]; del macs[mac]
MacsDelMissing(ms, m) == ms
MacsDel(ms, m) == SelectSeq(ms, LAMBDA x : x # m)

\* moveMac, second half: macs[mac] = x  (a new key goes last, an existing key keeps its place)
MacsSetFront(ms, m) == IF m \in Range(ms) THEN ms ELSE <<m>> \o ms
MacsSet(ms, m) == IF m \in Range(ms) THEN ms ELSE Append(ms, m)

\* ------------------------------------------------------------ request record
\* outcomes of the PortalClient calls and of the probe for one candidate MAC
Results == {"notoken", "nochannels", "nochannel", "badcmd", "nolink", "probefail", "ok"}

\* pc: idle -> loop -> (mvdel -> mvins -> loop)* -> ready -> streaming -> (mvdel -> mvins)
\*     -> closing -> done, with "scan" between loop and the outcome while isMacFree
\*     iterates;  resp: the handler's HTTP answer;  proc: ffmpeg_sp;
\* si, count: the list iterator's index and the count of isMacFree's loop;
\* gen: how the generator ended;  log: the candidates considered so far, what each gave
\* and the count isMacFree returned on (seen);  rot: the MAC last handed to moveMac and
\* the MAC order moveMac found
IdleReq ==
  [pc |-> "idle", portal |-> "none", snap |-> <<>>, idx |-> 0,
   mac |-> 0, si |-> 0, count |-> 0, freeMac |-> FALSE, log |-> <<>>, resp |-> "none",
   proc |-> "none", start |-> 0, gen |-> "none",
   rot |-> [mac |-> 0, pre |-> <<>>]]

NoObs == [lo |-> 0, hi |-> 0]

InHandler(q) ==
  \/ q.pc \in {"loop", "scan", "ready"}
  \/ q.pc \in {"mvdel", "mvins"} /\ q.proc = "none"

\* ------------------------------------------------------------ HLS records
\* a URL is the sequence of its pieces; the stream URLs handed to start_stream
Urls ==
  { <<"https://cdn/x/master", ".m3u8">>,
    <<"http://cdn/live/", "HLS", "/1">>,
    <<"http://cdn/x.ts">> }

\* str.lower() on a piece
Lower(piece) ==
  CASE piece = "HLS" -> "hls"
    [] piece = ".M3U8" -> ".m3u8"
    [] OTHER -> piece

\* utils.is_hls_url: a marker occurs in url.lower()
HlsMarkers == {".m3u8", "hls", "stitcher", "/manifest/"}
is_hls_url_first_piece(url) == url # <<>> /\ Lower(url[1]) \in HlsMarkers
is_hls_url(url) == url # <<>> /\ \E i \in 1..Len(url) : Lower(url[i]) \in HlsMarkers

NoStream == [id |-> 0, passthrough |-> FALSE, last |-> 0]
\* (a session whose process was reaped and whose directory is gone is NoSession again)
\* manifest: the URI line start_stream wrote to master.m3u8 (<<>> when it wrote none)
NoSession == [key |-> 0, proc |-> "none", dir |-> FALSE, manifest |-> <<>>]
IdleViewer == [pc |-> "idle", key |-> 0, url |-> <<>>, id |-> 0, out |-> "none"]
\* t: current_time; todo: streams_to_remove; cur: the key _stop_stream holds the lock for;
\* over, under: the sessions the scan of this sweep found idle for longer than the
\* timeout, and alive and idle for less (a record of the scan, no state of the program)
IdleSweeper ==
  [pc |-> "sleep", t |-> 0, todo |-> {}, cur |-> 0, over |-> {}, under |-> {}]

Registered == {k \in Keys : streams[k].id # 0}

\* tempfile.mkdtemp: a directory name that is not in use (nor remembered by the sweep)
FreeIds == {i \in SessionIds : sess[i] = NoSession /\ i \notin sw.over \cup sw.under}
FreshId == CHOOSE i \in FreeIds : \A j \in FreeIds : i <= j

\* the XC user before any request: no connection registered
NoXC ==
  [max |-> 1, conn |-> [d \in Devices |-> "none"], pc |-> [d \in Devices |-> "idle"],
   out |-> [d \in Devices |-> "none"]]

InitPlay ==
  /\ portalMacs = [i \in 1..NumMacs |-> i]
  /\ occupied = <<>>
  /\ rq = [r \in Threads |-> IdleReq]
  /\ obs = [r \in Threads |-> NoObs]

InitHLS ==
  /\ streams = [k \in Keys |-> NoStream]
  /\ sess = [i \in SessionIds |-> NoSession]
  /\ lock = {}
  /\ now = 0
  /\ vw = [t \in Viewers |-> IdleViewer]
  /\ sw = IdleSweeper

Init ==
  /\ conf \in [k : 0..MaxStreamsPerMac, tryAll : BOOLEAN, max : {MaxStreams}]
  /\ InitPlay
  /\ InitHLS
  /\ xc = NoXC

\* ------------------------------------------------------------ stream_channel
\* portal lookup, 404 for an unknown portal id, snapshot of the MAC order
\* (portal: whether the request's portalId is a key of config["portals"])
BeginNoLookup(r) ==
  /\ rq[r].pc = "idle"
  /\ \E known \in BOOLEAN :
       rq' = [rq EXCEPT ![r] =
                [IdleReq EXCEPT !.pc = "loop", !.snap = portalMacs, !.idx = 1,
                                !.portal = IF known THEN "known" ELSE "unknown"]]
  /\ UNCHANGED <<portalMacs, conf, occupied>>

Begin(r) ==
  /\ rq[r].pc = "idle"
  /\ \E known \in BOOLEAN :
       rq' = [rq EXCEPT ![r] =
                IF ~known
                THEN [IdleReq EXCEPT !.pc = "done", !.resp = "404", !.portal = "unknown"]
                ELSE IF portalMacs = <<>>
                THEN [IdleReq EXCEPT !.pc = "done", !.resp = "503", !.portal = "known"]
                ELSE [IdleReq EXCEPT !.pc = "loop", !.snap = portalMacs, !.idx = 1,
                                     !.portal = "known"]]
  /\ UNCHANGED <<portalMacs, conf, occupied>>

\* what the loop body does with the candidate once the portal calls have answered
\* (a handler that has returned keeps none of its loop variables; the snapshot stays
\* with the history when that is recorded)
Return(q, code, keep) ==
  [q EXCEPT !.pc = "done", !.resp = code, !.snap = IF keep THEN @ ELSE <<>>,
            !.idx = 0, !.mac = 0, !.freeMac = FALSE]

\* return Response(streamData(), ...): the handler is over and the generator, which
\* reads mac alone of the loop's variables, has not started
Respond(q, keep) ==
  [q EXCEPT !.pc = "ready", !.resp = "stream", !.snap = IF keep THEN @ ELSE <<>>,
            !.idx = IF keep THEN @ ELSE 0, !.freeMac = keep /\ @]

AfterCallsNoTokenCheck(q, m, res, streamed, keep) ==
  LET q1 == [q EXCEPT !.mac = m, !.freeMac = TRUE, !.count = 0,
                      !.log = IF keep
                              THEN Append(@, [mac |-> m, res |-> res, seen |-> q.count])
                              ELSE @]
  IN  CASE res \in {"ok", "notoken"} ->
             IF streamed
             THEN Respond(q1, keep)
             ELSE Return(q1, "redirect", keep)
        [] res = "badcmd" -> Return(q1, "500", keep)
        [] OTHER -> [q1 EXCEPT !.pc = "mvdel"]

AfterCallsChannelMiss(q, m, res, streamed, keep) ==
  LET q1 == [q EXCEPT !.mac = m, !.freeMac = TRUE, !.count = 0,
                      !.log = IF keep
                              THEN Append(@, [mac |-> m, res |-> res, seen |-> q.count])
                              ELSE @]
  IN  CASE res = "ok" ->
             IF streamed
             THEN Respond(q1, keep)
             ELSE Return(q1, "redirect", keep)
        [] res = "badcmd" -> Return(q1, "500", keep)
        [] res = "nochannel" -> Return(q1, "503", keep)
        [] OTHER -> [q1 EXCEPT !.pc = "mvdel"]

AfterCalls(q, m, res, streamed, keep) ==
  LET q1 == [q EXCEPT !.mac = m, !.freeMac = TRUE, !.count = 0,
                      !.log = IF keep
                              THEN Append(@, [mac |-> m, res |-> res, seen |-> q.count])
                              ELSE @]
  IN  CASE res = "ok" ->
             IF streamed
             THEN Respond(q1, keep)
             ELSE Return(q1, "redirect", keep)
        [] res = "badcmd" -> Return(q1, "500", keep)
        [] OTHER -> [q1 EXCEPT !.pc = "mvdel"]

\* the candidate passed the test: the portal calls, the probe and the response;
\* web is request.args.get("web") and method the setting "stream method", both read
\* by the branch that builds the response; "probefail" stands for the setting
\* "test streams" being on and testStream() returning False
Attempt(q, keep) ==
  {AfterCalls(q, q.mac, res, web \/ method = "ffmpeg", keep) :
     res \in Results, web \in BOOLEAN, method \in {"ffmpeg", "redirect"}}

\* the candidate did not pass the test: no call is made, the loop body falls through
\* to moveMac
Skip(q, keep) ==
  [q EXCEPT !.pc = "mvdel", !.count = 0,
            !.log = IF keep
                    THEN Append(@, [mac |-> q.mac, res |-> "skipped", seen |-> q.count])
                    ELSE @]

\* isMacFree has left its loop with q.count
TestedAdmitsAll(q, keep) == Attempt([q EXCEPT !.si = 0], keep)

Tested(q, keep) ==
  LET q0 == [q EXCEPT !.si = 0]
  IN  IF IsMacFree(q.count, conf.k) THEN Attempt(q0, keep) ELSE {Skip(q0, keep)}

\* one turn of "for i in occupied.get(portalId, [])": the iterator hands out the
\* element at its index, if the list (as it is now) has one, and the loop ends if not
Iterate(q, keep) ==
  IF q.si <= Len(occupied)
  THEN {[q EXCEPT !.pc = "scan", !.si = @ + 1,
                  !.count = IF occupied[q.si].mac = q.mac THEN @ + 1 ELSE @]}
  ELSE Tested(q, keep)

TryMacOccupyEarly(r, keep) ==
  /\ rq[r].pc = "loop"
  /\ LET q == [rq[r] EXCEPT !.mac = rq[r].snap[rq[r].idx], !.si = 1]
     IN  \E q1 \in (IF Unlimited(conf.k) THEN Attempt([q EXCEPT !.si = 0], keep)
                     ELSE Iterate(q, keep)) :
           /\ rq' = [rq EXCEPT ![r] = q1]
           /\ occupied' = IF q1.pc = "ready" THEN Occupy(occupied, StreamInfo(q1))
                          ELSE occupied
  /\ UNCHANGED <<portalMacs, conf>>

\* the head of one iteration of "for mac in macs": with streamsPerMac == 0 the
\* candidate is attempted at once, else isMacFree starts to iterate over the list
TryMac(r, keep) ==
  /\ rq[r].pc = "loop"
  /\ LET q == [rq[r] EXCEPT !.mac = rq[r].snap[rq[r].idx], !.si = 1]
     IN  \E q1 \in (IF Unlimited(conf.k) THEN Attempt([q EXCEPT !.si = 0], keep)
                     ELSE Iterate(q, keep)) :
           rq' = [rq EXCEPT ![r] = q1]
  /\ UNCHANGED <<portalMacs, conf, occupied>>

\* isMacFree goes on iterating while other threads append to the list and remove
\* from it
Scan(r, keep) ==
  /\ rq[r].pc = "scan"
  /\ \E q1 \in Iterate(rq[r], keep) : rq' = [rq EXCEPT ![r] = q1]
  /\ UNCHANGED <<portalMacs, conf, occupied>>

\* where a thread goes when moveMac returns (raised = FALSE) or raises KeyError
AfterMove(q, raised, keep) ==
  IF q.proc # "none" THEN [q EXCEPT !.pc = "closing"]
  ELSE IF raised THEN Return(q, "500", keep)
  ELSE IF ~conf.tryAll \/ q.idx = Len(q.snap) THEN Return(q, "503", keep)
  ELSE [q EXCEPT !.pc = "loop", !.idx = @ + 1]

\* moveMac: x = macs[mac]; del macs[mac]
MoveMacDel(r, keep) ==
  /\ rq[r].pc = "mvdel"
  /\ IF rq[r].mac \in Range(portalMacs)
     THEN /\ portalMacs' = MacsDel(portalMacs, rq[r].mac)
          /\ rq' = [rq EXCEPT ![r].pc = "mvins",
                              ![r].rot = IF keep THEN [mac |-> rq[r].mac, pre |-> portalMacs]
                                         ELSE @]
     ELSE /\ portalMacs' = portalMacs
          /\ rq' = [rq EXCEPT ![r] = AfterMove(rq[r], TRUE, keep)]
  /\ UNCHANGED <<conf, occupied>>

\* moveMac: macs[mac] = x; savePortals(portals)
MoveMacIns(r, keep) ==
  /\ rq[r].pc = "mvins"
  /\ portalMacs' = MacsSet(portalMacs, rq[r].mac)
  /\ rq' = [rq EXCEPT ![r] = AfterMove(rq[r], FALSE, keep)]
  /\ UNCHANGED <<conf, occupied>>

\* ------------------------------------------------------------ streamData
\* first next() of the generator: startTime, occupy(), subprocess.Popen
\* (the handler has returned: of its locals the generator keeps mac and startTime)
GenStart(r) ==
  /\ rq[r].pc = "ready"
  /\ \E t \in 1..NumStamps, spawned \in BOOLEAN :
       /\ LET q == [rq[r] EXCEPT !.start = t, !.snap = <<>>, !.idx = 0,
                                 !.freeMac = FALSE, !.log = <<>>,
                                 !.proc = IF spawned THEN "running" ELSE "unbound",
                                 !.pc = IF spawned THEN "streaming" ELSE "closing"]
          IN  /\ occupied' = Occupy(occupied, StreamInfo(q))
              /\ rq' = [rq EXCEPT ![r] = q]
  /\ UNCHANGED <<portalMacs, conf>>

\* empty read: poll() is 0, non-zero, or None (stdout closed, process still alive)
Eof(r) ==
  /\ rq[r].pc = "streaming"
  /\ \E st \in {"exit0", "exit1", "running"} :
       rq' = [rq EXCEPT ![r].proc = st,
                        ![r].pc = IF st = "exit0" THEN "closing" ELSE "mvdel"]
  /\ UNCHANGED <<portalMacs, conf, occupied>>

\* the client goes away: GeneratorExit at the yield, swallowed by the bare except
ClientAbort(r) ==
  /\ rq[r].pc = "streaming"
  /\ rq' = [rq EXCEPT ![r].pc = "closing"]
  /\ UNCHANGED <<portalMacs, conf, occupied>>

\* Popen.__exit__ has waited for the process (when there is one);
\* finally: unoccupy(); ffmpeg_sp.kill()  -- UnboundLocalError when Popen raised
Cleanup(r) ==
  /\ rq[r].pc = "closing"
  /\ occupied' = Unoccupy(occupied, StreamInfo(rq[r]))
  /\ rq' = [rq EXCEPT ![r].pc = "done",
                      ![r].proc = IF @ = "unbound" THEN "unbound" ELSE "exited",
                      ![r].mac = 0, ![r].start = 0,
                      ![r].gen = IF rq[r].proc = "unbound" THEN "raised" ELSE "closed"]
  /\ UNCHANGED <<portalMacs, conf>>

\* the request thread is free for the next request
Finish(r) ==
  /\ rq[r].pc = "done"
  /\ rq' = [rq EXCEPT ![r] = IdleReq]
  /\ UNCHANGED <<portalMacs, conf, occupied>>

\* keep: whether the histories rq[r].log and rq[r].rot are recorded and the snapshot is
\* kept after the return (they are read by the claims about single requests only, and
\* are no state of the program)
Serve(r, keep) ==
  \/ TryMac(r, keep)
  \/ MoveMacDel(r, keep)
  \/ MoveMacIns(r, keep)
  \/ GenStart(r)
  \/ Eof(r)
  \/ ClientAbort(r)
  \/ Cleanup(r)

Advance(r, keep) == Serve(r, keep) \/ Finish(r)

Step(r, keep) == Advance(r, keep) \/ Scan(r, keep)

\* requests on concurrent threads
Next == (\E r \in Reqs : Begin(r) \/ Step(r, FALSE)) /\ UNCHANGED <<obs, hlsVars, xc>>

Spec == Init /\ [][Next]_vars

\* requests issued one at a time: while a request is between its start and the start
\* of its generator no other thread takes a step; established streams stay open beside
\* it and end between two requests
Alone(r) == \A o \in Reqs \ {r} : ~InHandler(rq[o])

BeginSeq(r) == Alone(r) /\ Begin(r)

StepSeq(r) == Alone(r) /\ Step(r, FALSE)

NextSeq == (\E r \in Reqs : BeginSeq(r) \/ StepSeq(r)) /\ UNCHANGED <<obs, hlsVars, xc>>

SpecSeq == Init /\ [][NextSeq]_vars

\* one request at a time, each run to the end of its response
BeginSolo(r) ==
  /\ \A o \in Reqs \ {r} : rq[o].pc = "idle"
  /\ Begin(r)

\* (the list is empty whenever a request of such a run enters isMacFree, whose loop
\* body is never reached)
NextSolo ==
  (\E r \in Reqs : BeginSolo(r) \/ Advance(r, TRUE)) /\ UNCHANGED <<obs, hlsVars, xc>>

SpecSolo == Init /\ [][NextSolo]_vars

\* concurrent requests with the histories rq[r].log and rq[r].rot recorded
NextLog == (\E r \in Reqs : Begin(r) \/ Step(r, TRUE)) /\ UNCHANGED <<obs, hlsVars, xc>>

SpecLog == Init /\ [][NextLog]_vars

\* the number of entries of the list for MAC m
EntriesFor(occ, m) == Cardinality({i \in 1..Len(occ) : occ[i].mac = m})

\* what is on record for thread r after a step: while r is inside the loop of isMacFree,
\* the range of EntriesFor over the states of the list since the loop began
Observed(r) ==
  IF rq'[r].pc # "scan" THEN NoObs
  ELSE LET c == EntriesFor(occupied', rq'[r].mac)
       IN  IF rq[r].pc # "scan" THEN [lo |-> c, hi |-> c]
           ELSE [lo |-> IF c < obs[r].lo THEN c ELSE obs[r].lo,
                 hi |-> IF c > obs[r].hi THEN c ELSE obs[r].hi]

\* every request thread of the server takes one request, all of them concurrently
NextRace ==
  /\ \E r \in Threads : Begin(r) \/ Serve(r, FALSE) \/ Scan(r, FALSE)
  /\ obs' = [r \in Threads |-> Observed(r)]
  /\ UNCHANGED <<hlsVars, xc>>

SpecRace == Init /\ [][NextRace]_vars

\* ------------------------------------------------------------ HLSStreamManager
\* threading.Lock: acquired only when nobody holds it
CanAcquireUnlocked(l) == TRUE
CanAcquire(l) == l = {}

\* len(self.streams) >= self.max_streams
AtCapacityOffByOne(n, max) == n > max
AtCapacity(n, max) == n >= max

\* inactive_time = current_time - last_accessed; inactive_time > self.inactive_timeout
IsInactiveSwapped(t, last, timeout) == last - t > timeout
IsInactive(t, last, timeout) == t - last > timeout

\* start_stream(portal_id, channel_id, stream_url) is entered and takes the lock
StartAcquire(t) ==
  /\ vw[t].pc = "idle"
  /\ CanAcquire(lock)
  /\ FreeIds # {}
  /\ \E k \in Keys, url \in Urls :
       vw' = [vw EXCEPT ![t] = [IdleViewer EXCEPT !.pc = "check", !.key = k, !.url = url]]
  /\ lock' = lock \cup {t}
  /\ UNCHANGED <<streams, sess, now, sw>>

\* under the lock: reuse, capacity error, or mkdtemp and (when is_hls_url(stream_url))
\* the passthrough session with its master playlist
StartCheck(t) ==
  /\ vw[t].pc = "check"
  /\ LET k == vw[t].key
     IN  IF k \in Registered
         THEN /\ streams' = [streams EXCEPT ![k].last = now]
              /\ vw' = [vw EXCEPT ![t].pc = "done", ![t].out = "reused", ![t].url = <<>>]
              /\ lock' = lock \ {t}
              /\ UNCHANGED sess
         ELSE IF AtCapacity(Cardinality(Registered), conf.max)
         THEN /\ vw' = [vw EXCEPT ![t].pc = "done", ![t].out = "capacity", ![t].url = <<>>]
              /\ lock' = lock \ {t}
              /\ UNCHANGED <<streams, sess>>
         ELSE IF is_hls_url(vw[t].url)
         THEN /\ sess' = [sess EXCEPT ![FreshId] = [key |-> k, proc |-> "none", dir |-> TRUE,
                                                    manifest |-> vw[t].url]]
              /\ streams' = [streams EXCEPT ![k] =
                               [id |-> FreshId, passthrough |-> TRUE, last |-> now]]
              /\ vw' = [vw EXCEPT ![t].pc = "done", ![t].out = "created", ![t].url = <<>>]
              /\ lock' = lock \ {t}
         ELSE /\ sess' = [sess EXCEPT ![FreshId] = [key |-> k, proc |-> "none", dir |-> TRUE,
                                                    manifest |-> <<>>]]
              /\ vw' = [vw EXCEPT ![t].pc = "spawn", ![t].url = <<>>, ![t].id = FreshId]
              /\ UNCHANGED <<streams, lock>>
  /\ UNCHANGED <<now, sw>>

\* hls_stream: what the route answers when start_stream raised ("error": Popen failed,
\* "capacity": max_streams reached), both caught by its except clause
HlsStatus(out) ==
  CASE out \in {"error", "capacity"} -> "500"
    [] out = "404" -> "404"
    [] OTHER -> "file"

StartSpawnKeepsDir(t) ==
  /\ vw[t].pc = "spawn"
  /\ \E spawned \in BOOLEAN :
       IF spawned
       THEN /\ sess' = [sess EXCEPT ![vw[t].id].proc = "running"]
            /\ streams' = [streams EXCEPT ![vw[t].key] =
                             [id |-> vw[t].id, passthrough |-> FALSE, last |-> now]]
            /\ vw' = [vw EXCEPT ![t].pc = "done", ![t].out = "created", ![t].id = 0]
       ELSE /\ sess' = sess
            /\ streams' = streams
            /\ vw' = [vw EXCEPT ![t].pc = "done", ![t].out = "error", ![t].id = 0]
  /\ lock' = lock \ {t}
  /\ UNCHANGED <<now, sw>>

\* still under the lock: subprocess.Popen, then the session is stored; when Popen
\* raises, the temp directory is removed and the error goes to the caller
StartSpawn(t) ==
  /\ vw[t].pc = "spawn"
  /\ \E spawned \in BOOLEAN :
       IF spawned
       THEN /\ sess' = [sess EXCEPT ![vw[t].id].proc = "running"]
            /\ streams' = [streams EXCEPT ![vw[t].key] =
                             [id |-> vw[t].id, passthrough |-> FALSE, last |-> now]]
            /\ vw' = [vw EXCEPT ![t].pc = "done", ![t].out = "created", ![t].id = 0]
       ELSE /\ sess' = [sess EXCEPT ![vw[t].id] = NoSession]
            /\ streams' = streams
            /\ vw' = [vw EXCEPT ![t].pc = "done", ![t].out = "error", ![t].id = 0]
  /\ lock' = lock \ {t}
  /\ UNCHANGED <<now, sw>>

\* hls_stream for a portal id that is not a key of config["portals"]: 404 before
\* anything else (the requests for configured portals are the calls of start_stream
\* and get_file)
HlsNotFound(t) ==
  /\ vw[t].pc = "idle"
  /\ vw' = [vw EXCEPT ![t] = [IdleViewer EXCEPT !.pc = "done", !.out = "404"]]
  /\ UNCHANGED <<streams, sess, lock, now, sw>>

\* the handler has returned: the thread is free for the next request
ViewerReturn(t) ==
  /\ vw[t].pc = "done"
  /\ vw' = [vw EXCEPT ![t] = IdleViewer]
  /\ UNCHANGED <<streams, sess, lock, now, sw>>

\* get_file: under the lock, refreshes last_accessed of a registered session
GetFile(t) ==
  /\ vw[t].pc = "idle"
  /\ CanAcquire(lock)
  /\ \E k \in Registered : streams' = [streams EXCEPT ![k].last = now]
  /\ UNCHANGED <<sess, lock, now, vw, sw>>

\* an ffmpeg process ends by itself
ProcExit(i) ==
  /\ sess[i].proc = "running"
  /\ sess' = [sess EXCEPT ![i].proc = "exited"]
  /\ UNCHANGED <<streams, lock, now, vw, sw>>

Tick ==
  /\ now < MaxNow
  /\ now' = now + 1
  /\ UNCHANGED <<streams, sess, lock, vw, sw>>

\* _cleanup_inactive_streams: current_time = time.time()
SweepBegin ==
  /\ sw.pc = "sleep"
  /\ sw' = [IdleSweeper EXCEPT !.pc = "scan", !.t = now]
  /\ UNCHANGED <<streams, sess, lock, now, vw>>

\* the keys the scan puts on streams_to_remove: a session whose process has ended,
\* else a session idle for longer than the timeout
ToRemoveIdleOnly(t) ==
  {k \in Registered : IsInactive(t, streams[k].last, InactiveTimeout)}

ToRemove(t) ==
  {k \in Registered :
     \/ ~streams[k].passthrough /\ sess[streams[k].id].proc # "running"
     \/ IsInactive(t, streams[k].last, InactiveTimeout)}

\* the scan, under the lock
SweepScan ==
  /\ sw.pc = "scan"
  /\ CanAcquire(lock)
  /\ sw' = [sw EXCEPT !.pc = "stop", !.t = 0, !.todo = ToRemove(sw.t),
                      !.over = {streams[k].id : k \in {x \in Registered :
                                   sw.t - streams[x].last > InactiveTimeout}},
                      !.under = {streams[k].id : k \in {x \in Registered :
                                   /\ sw.t - streams[x].last < InactiveTimeout
                                   /\ \/ streams[x].passthrough
                                      \/ sess[streams[x].id].proc = "running"}}]
  /\ UNCHANGED <<streams, sess, lock, now, vw>>

\* _stop_stream(stream_key) takes the lock; a key no longer registered is skipped
StopAcquire ==
  /\ sw.pc = "stop"
  /\ sw.todo # {}
  /\ CanAcquire(lock)
  /\ \E k \in sw.todo :
       IF k \in Registered
       THEN /\ sw' = [sw EXCEPT !.pc = "teardown", !.cur = k, !.todo = @ \ {k}]
            /\ lock' = lock \cup {Sweeper}
       ELSE /\ sw' = [sw EXCEPT !.todo = @ \ {k}]
            /\ lock' = lock
  /\ UNCHANGED <<streams, sess, now, vw>>

\* _stop_stream, holding the lock: terminate/wait/kill the process, rmtree the temp
\* directory, del self.streams[stream_key]
StopFinish ==
  /\ sw.pc = "teardown"
  /\ sess' = [sess EXCEPT ![streams[sw.cur].id] = NoSession]
  /\ streams' = [streams EXCEPT ![sw.cur] = NoStream]
  /\ sw' = [sw EXCEPT !.pc = "stop", !.cur = 0]
  /\ lock' = lock \ {Sweeper}
  /\ UNCHANGED <<now, vw>>

\* streams_to_remove is worked off: the monitor sleeps until the next sweep
\* (what the scan saw is kept for the length of the sweep only)
SweepEnd ==
  /\ sw.pc = "stop"
  /\ sw.todo = {}
  /\ sw' = IdleSweeper
  /\ UNCHANGED <<streams, sess, lock, now, vw>>

NextHLS ==
  /\ \/ \E t \in Viewers : StartAcquire(t) \/ StartCheck(t) \/ StartSpawn(t)
                            \/ ViewerReturn(t) \/ GetFile(t) \/ HlsNotFound(t)
     \/ \E i \in SessionIds : ProcExit(i)
     \/ Tick
     \/ SweepBegin
     \/ SweepScan
     \/ StopAcquire
     \/ StopFinish
     \/ SweepEnd
  /\ UNCHANGED <<playVars, xc>>

\* the HLS manager alone: no play request is under way
InitManager ==
  /\ conf \in [k : {0}, tryAll : {TRUE}, max : 1..MaxStreams]
  /\ InitPlay
  /\ InitHLS
  /\ xc = NoXC

SpecHLS == InitManager /\ [][NextHLS]_vars

\* ------------------------------------------------------------ hls_stream
\* the route for a configured portal finds the key registered:
\* stream_exists = stream_key in hls_manager.streams, read without the lock
\* (a key that is not registered takes the handler to start_stream: StartAcquire);
\* playlist: filename.endswith('.m3u8')
FetchExists(t) ==
  /\ vw[t].pc = "idle"
  /\ \E k \in Registered, playlist \in BOOLEAN :
       vw' = [vw EXCEPT ![t] = [IdleViewer EXCEPT !.key = k,
                                  !.pc = IF playlist THEN "peek" ELSE "get"]]
  /\ UNCHANGED <<streams, sess, lock, now, sw>>

\* hls_manager.streams[stream_key].get('is_passthrough', False), read without the lock
\* and outside any try: KeyError when the key has been deleted meanwhile
FetchPeek(t) ==
  /\ vw[t].pc = "peek"
  /\ vw' = IF vw[t].key \in Registered
            THEN [vw EXCEPT ![t].pc = "get"]
            ELSE [vw EXCEPT ![t].pc = "done", ![t].out = "raised"]
  /\ UNCHANGED <<streams, sess, lock, now, sw>>

\* hls_manager.get_file under the lock, then the answer: the file when get_file gave a
\* path that exists, else (no path, and start_stream made or found no file in time) 404
FetchGet(t) ==
  /\ vw[t].pc = "get"
  /\ CanAcquire(lock)
  /\ LET k == vw[t].key
     IN  IF k \in Registered
         THEN /\ streams' = [streams EXCEPT ![k].last = now]
              /\ \E found \in BOOLEAN :
                   vw' = [vw EXCEPT ![t].pc = "done",
                                    ![t].out = IF found THEN "file" ELSE "404"]
         ELSE /\ streams' = streams
              /\ vw' = [vw EXCEPT ![t].pc = "done", ![t].out = "404"]
  /\ UNCHANGED <<sess, lock, now, sw>>

\* viewers fetching through the route while sessions are started and swept
NextFetch ==
  /\ \/ \E t \in Viewers : StartAcquire(t) \/ StartCheck(t) \/ StartSpawn(t)
                            \/ ViewerReturn(t)
                            \/ FetchExists(t) \/ FetchPeek(t) \/ FetchGet(t)
     \/ \E i \in SessionIds : ProcExit(i)
     \/ Tick
     \/ SweepBegin
     \/ SweepScan
     \/ StopAcquire
     \/ StopFinish
     \/ SweepEnd
  /\ UNCHANGED <<playVars, xc>>

SpecFetch == InitManager /\ [][NextFetch]_vars

\* ------------------------------------------------------------ xc_stream
\* the devices in active_connections whose last_activity is less than 60 s old
Active == {d \in Devices : xc.conn[d] = "fresh"}

\* checkXCConnectionLimit: connections older than 60 s are dropped (and the user saved);
\* a device that has a connection may connect, another one only below max_connections;
\* else xc_stream answers 429
XcCheck(d) ==
  /\ xc.pc[d] = "idle"
  /\ LET admitted == d \in Active \/ Cardinality(Active) < xc.max
     IN  xc' = [xc EXCEPT !.conn = [e \in Devices |-> IF e \in Active THEN "fresh" ELSE "none"],
                          !.pc[d] = IF admitted THEN "checked" ELSE "done",
                          !.out[d] = IF admitted THEN "none" ELSE "429"]

\* registerXCConnection: active_connections[device_id] = {..., "last_activity": now}
XcRegister(d) ==
  /\ xc.pc[d] = "checked"
  /\ xc' = [xc EXCEPT !.conn[d] = "fresh", !.pc[d] = "called"]

\* stream_channel has returned: a streaming response is wrapped by cleanup_wrapper,
\* any other response (redirect, 404, 503) is returned as it is and the connection
\* stays registered; an exception unregisters it
XcRespond(d) ==
  /\ xc.pc[d] = "called"
  /\ \E res \in {"stream", "other", "raised"} :
       xc' = CASE res = "stream" -> [xc EXCEPT !.pc[d] = "streaming"]
               [] res = "other" -> [xc EXCEPT !.pc[d] = "done", !.out[d] = "other"]
               [] OTHER -> [xc EXCEPT !.pc[d] = "done", !.out[d] = "500", !.conn[d] = "none"]

\* cleanup_wrapper, finally: unregisterXCConnection
XcStreamEnd(d) ==
  /\ xc.pc[d] = "streaming"
  /\ xc' = [xc EXCEPT !.pc[d] = "done", !.out[d] = "stream", !.conn[d] = "none"]

\* the request thread is free: the device may ask again
XcReturn(d) ==
  /\ xc.pc[d] = "done"
  /\ xc' = [xc EXCEPT !.pc[d] = "idle", !.out[d] = "none"]

\* 60 s pass without updateXCConnectionActivity for the device
XcAge(d) ==
  /\ xc.conn[d] = "fresh"
  /\ xc' = [xc EXCEPT !.conn[d] = "stale"]

NextXC ==
  /\ \E d \in Devices : XcCheck(d) \/ XcRegister(d) \/ XcRespond(d) \/ XcStreamEnd(d)
                          \/ XcReturn(d) \/ XcAge(d)
  /\ UNCHANGED <<playVars, hlsVars>>

InitXC ==
  /\ conf = [k |-> 0, tryAll |-> TRUE, max |-> MaxStreams]
  /\ InitPlay
  /\ InitHLS
  /\ xc \in {[NoXC EXCEPT !.max = m] : m \in 1..MaxConnections}

SpecXC == InitXC /\ [][NextXC]_vars

\* ================================================================ claims
\* the entries of the list whose "mac" is m
CountMac(occ, m) == Cardinality({i \in 1..Len(occ) : occ[i].mac = m})

Pos(s, x) == CHOOSE i \in 1..Len(s) : s[i] = x
Before(s, a, b) == Pos(s, a) < Pos(s, b)

\* the order `after` has m last, the MACs of `before`, and every other pair in the
\* order it had in `before`
RotatedToBack(before, m, after) ==
  /\ Len(after) = Len(before)
  /\ Range(after) = Range(before)
  /\ m \in Range(before)
  /\ after[Len(after)] = m
  /\ \A a, b \in Range(before) \ {m} : Before(before, a, b) <=> Before(after, a, b)

\* the results that take the failure edge of the loop
Failed(res) == res \in {"notoken", "nochannels", "nochannel", "nolink", "probefail"}

\* C1: with streamsPerMac = k > 0 and requests issued one at a time, no MAC ever has
\* more than k occupancy entries
C1_SlotAccounting ==
  conf.k > 0 => \A m \in Macs : CountMac(occupied, m) <= conf.k

\* a MAC holds its k entries and the request being handled has just skipped it
C1_Witness ==
  \E r \in Reqs :
    /\ conf.k > 0
    /\ rq[r].pc = "mvdel" /\ rq[r].proc = "none" /\ ~rq[r].freeMac
    /\ CountMac(occupied, rq[r].mac) = conf.k

\* C2: the cleanup of a streamData session removes exactly one entry, the session's
\* own, leaves no subprocess running, raises nothing, and run a second time would
\* raise nothing and remove nothing
C2_CleanupExactlyOnce ==
  [][\A r \in Reqs :
       (rq[r].pc = "closing" /\ rq'[r].pc = "done") =>
         LET e == StreamInfo(rq[r])
         IN  /\ \E i \in 1..Len(occupied) :
                  /\ occupied[i] = e
                  /\ occupied' = SubSeq(occupied, 1, i - 1)
                                   \o SubSeq(occupied, i + 1, Len(occupied))
             /\ rq'[r].proc # "running"
             /\ rq'[r].gen # "raised"
             /\ Unoccupy(occupied', e) = occupied']_vars

C5_AllAuthFailExhausted ==
  \A r \in Reqs :
    (rq[r].log # <<>> /\ \A i \in 1..Len(rq[r].log) : rq[r].log[i].res = "notoken") =>
      /\ rq[r].pc \in {"mvdel", "mvins", "loop", "done"}
      /\ rq[r].proc = "none" /\ rq[r].gen = "none"
      /\ occupied = <<>>
      /\ rq[r].pc = "done" => rq[r].resp = "503"

\* every MAC of the portal was tried, none got a token, the answer is 503
C5_Witness ==
  \E r \in Reqs :
    /\ rq[r].pc = "done" /\ rq[r].resp = "503"
    /\ Len(rq[r].log) = NumMacs
    /\ \A i \in 1..NumMacs : rq[r].log[i].res = "notoken"

\* C8: with "try all macs" on, when the response is handed to streamData the MAC that
\* succeeded was not rotated and every earlier candidate was: the order is the
\* snapshot from the successful MAC on, then the earlier candidates, and the stream
\* runs on the successful MAC
C8_SuccessAheadOfFailed ==
  \A r \in Reqs :
    (rq[r].pc = "ready" /\ conf.tryAll) =>
      LET q == rq[r]
          n == Len(q.log)
      IN  /\ q.log[n].res = "ok"
          /\ q.mac = q.log[n].mac
          /\ StreamInfo(q).mac = q.snap[n]
          /\ portalMacs = SubSeq(q.snap, n, Len(q.snap)) \o SubSeq(q.snap, 1, n - 1)
          /\ \A i \in 1..(n - 1) : Before(portalMacs, q.mac, q.log[i].mac)

\* MACs [1, 2], streamsPerMac 1: 1 fails the handshake, 2 succeeds, the order is [2, 1]
C8_Witness ==
  \E r \in Reqs :
    /\ rq[r].pc = "ready" /\ conf.tryAll /\ conf.k = 1
    /\ rq[r].snap = <<1, 2>>
    /\ rq[r].log = <<[mac |-> 1, res |-> "notoken", seen |-> 0], [mac |-> 2, res |-> "ok", seen |-> 0]>>
    /\ portalMacs = <<2, 1>>

\* C9: on every exit path of streamData the cleanup raises nothing, every entry in the
\* tracker belongs to a generator that has not yet cleaned up, and no subprocess is
\* left running
C9_CleanupOnEveryPath ==
  /\ \A r \in Reqs : rq[r].gen # "raised"
  /\ \A r \in Reqs : rq[r].pc = "done" => rq[r].proc # "running"
  /\ Len(occupied) =
       Cardinality({r \in Reqs : rq[r].proc # "none" /\ rq[r].pc # "done"})

NextFront ==
  \/ (\E r \in Reqs : Begin(r) \/ Step(r, FALSE)) /\ UNCHANGED <<obs, hlsVars, xc>>
  \/ (\E t \in Viewers : HlsNotFound(t) \/ ViewerReturn(t)) /\ UNCHANGED <<playVars, xc>>

SpecFront == Init /\ [][NextFront]_vars

\* ------------------------------------------------------------ HLS sessions
\* the session objects (temp directory, process) that exist for key k
SessionsOf(k) == {i \in SessionIds : sess[i].key = k}
LiveProcs(k) == {i \in SessionIds : sess[i].key = k /\ sess[i].proc = "running"}
RegisteredIds == {streams[k].id : k \in Registered}

\* the state part of C3: for every key there is at most one session object and at most
\* one running ffmpeg process, and a session object is either the one the registry
\* holds for its key or the one a start_stream call is creating under the lock
OneSessionPerKey ==
  \A k \in Keys :
    /\ Cardinality(SessionsOf(k)) <= 1
    /\ Cardinality(LiveProcs(k)) <= 1
    /\ \A i \in SessionsOf(k) :
         \/ streams[k].id = i
         \/ \E t \in Viewers : vw[t].pc = "spawn" /\ vw[t].id = i /\ vw[t].key = k /\ t \in lock

\* C3: whatever the interleaving of start_stream calls, every key has at most one
\* ffmpeg process and at most one session in every state, and a call that returns a
\* session (created or reused) leaves exactly one session registered for its key
C3_OneSessionPerKey ==
  [][/\ OneSessionPerKey'
     /\ \A t \in Viewers :
          (vw[t].pc \in {"check", "spawn"} /\ vw'[t].pc = "done"
             /\ vw'[t].out \in {"created", "reused"}) =>
            /\ streams'[vw[t].key].id # 0
            /\ SessionsOf(vw[t].key)' = {streams'[vw[t].key].id}]_vars

\* two calls for one key have returned, one created the session and the other reused
\* it, and the key has one ffmpeg process
C3_Witness ==
  \E t, u \in Viewers :
    /\ vw[t].pc = "done" /\ vw[t].out = "created"
    /\ vw[u].pc = "done" /\ vw[u].out = "reused"
    /\ vw[t].key = vw[u].key
    /\ Cardinality(LiveProcs(vw[t].key)) = 1
    /\ streams[vw[t].key].id \in LiveProcs(vw[t].key)

\* C6: when a sweep has worked off its list, every session whose idle time at the scan
\* (current_time - last_accessed) was above the timeout is out of the registry and its
\* temp directory is gone, and every session that was alive with an idle time below the
\* timeout is still registered with its directory
C6_SweepEvictsIdleOnly ==
  (sw.pc = "stop" /\ sw.todo = {}) =>
    /\ \A i \in sw.over : i \notin RegisteredIds /\ ~sess[i].dir
    /\ \A i \in sw.under : i \in RegisteredIds /\ sess[i].dir

\* a sweep has ended that evicted one session and retained another
C6_Witness ==
  /\ sw.pc = "stop" /\ sw.todo = {}
  /\ \E i \in sw.over : ~sess[i].dir /\ i \notin RegisteredIds
  /\ \E j \in sw.under : sess[j].dir /\ j \in RegisteredIds

\* C7: never more than max_streams sessions are registered; a start_stream for a key
\* without a session fails with the capacity error exactly when max_streams sessions
\* are registered, and that call changes neither the registry nor any session
C7_AtMostMaxStreams ==
  [][/\ Cardinality(Registered)' <= conf.max
     /\ \A t \in Viewers :
          (vw[t].pc = "check" /\ vw'[t].pc # "check") =>
            /\ (vw[t].key \notin Registered /\ Cardinality(Registered) = conf.max)
                 <=> vw'[t].out = "capacity"
            /\ vw'[t].out = "capacity" => streams' = streams /\ sess' = sess]_vars

\* the registry is full and a call for a further key got the capacity error
C7_Witness ==
  \E t \in Viewers :
    /\ vw[t].pc = "done" /\ vw[t].out = "capacity"
    /\ vw[t].key \notin Registered
    /\ Cardinality(Registered) = conf.max
    /\ \A k \in Registered : sess[streams[k].id].dir

\* ------------------------------------------------------------ candidate selection
\* C11: with streamsPerMac = 0 no candidate of any request is skipped for lack of a
\* slot, however many entries its MAC has
C11_UnlimitedNeverSkips ==
  conf.k = 0 =>
    \A r \in Reqs : \A i \in 1..Len(rq[r].log) : rq[r].log[i].res # "skipped"

\* streamsPerMac = 0: a request passed the test for a MAC another stream runs on
C11_Witness ==
  \E r, o \in Reqs :
    /\ conf.k = 0 /\ r # o
    /\ rq[o].pc = "streaming" /\ CountMac(occupied, rq[o].mac) >= 1
    /\ rq[r].pc = "ready" /\ rq[r].mac = rq[o].mac
    /\ rq[r].log[Len(rq[r].log)] = [mac |-> rq[o].mac, res |-> "ok", seen |-> 0]

\* ------------------------------------------------------------ HLS passthrough
\* the stream URLs that name an HLS manifest
ManifestUrls == {u \in Urls : u[Len(u)] \in {".m3u8", ".M3U8"}}

\* C12: a start_stream call for an unregistered key, below capacity, whose stream URL is
\* an HLS manifest registers a passthrough session without going through the spawn, the
\* manifest it wrote holds exactly that URL, and no passthrough session ever has a
\* subprocess
C12_ManifestUrlPassthrough ==
  [][/\ \A t \in Viewers :
          (/\ vw[t].pc = "check" /\ vw'[t].pc # "check"
           /\ vw[t].url \in ManifestUrls
           /\ vw'[t].out \notin {"reused", "capacity"}) =>
            /\ vw'[t].pc = "done" /\ vw'[t].out = "created"
            /\ streams'[vw[t].key].id # 0
            /\ streams'[vw[t].key].passthrough
            /\ sess'[streams'[vw[t].key].id].manifest = vw[t].url
            /\ sess'[streams'[vw[t].key].id].proc = "none"
     /\ \A k \in Keys :
          (streams'[k].id # 0 /\ streams'[k].passthrough) =>
            /\ sess'[streams'[k].id].proc = "none"
            /\ sess'[streams'[k].id].manifest \in Urls
     /\ \A k \in Keys :
          (streams[k].id # 0 /\ streams[k].id = streams'[k].id) =>
            /\ streams'[k].passthrough = streams[k].passthrough
            /\ sess'[streams[k].id].manifest = sess[streams[k].id].manifest]_vars

\* a passthrough session for https://cdn/x/master.m3u8 is registered, no process exists
C12_Witness ==
  \E k \in Registered :
    /\ streams[k].passthrough
    /\ sess[streams[k].id].manifest = <<"https://cdn/x/master", ".m3u8">>
    /\ sess[streams[k].id].proc = "none"
    /\ \A i \in SessionIds : sess[i].proc = "none"
    /\ \E t \in Viewers : vw[t].pc = "done" /\ vw[t].out = "created" /\ vw[t].key = k

\* ------------------------------------------------------------ unknown portal
\* C13: a play request for a portal id that is not configured is answered 404 in its
\* first step, before any portal call, and so is an HLS request; neither step changes
\* the MAC order, the occupancy tracker, the HLS registry or any HLS session, and no
\* other request gets a 404
C13_UnknownPortal404 ==
  [][/\ \A r \in Reqs :
          (rq[r].pc = "idle" /\ rq'[r].pc # "idle") =>
            /\ rq'[r].portal = "unknown" <=> rq'[r].resp = "404"
            /\ rq'[r].portal = "unknown" =>
                 /\ rq'[r].pc = "done" /\ rq'[r].proc = "none" /\ rq'[r].gen = "none"
                 /\ rq'[r].log = <<>> /\ rq'[r].rot.mac = 0
                 /\ UNCHANGED <<portalMacs, occupied, streams, sess, lock>>
     /\ \A r \in Reqs : rq[r].pc # "idle" => rq'[r].resp # "404" \/ rq[r].resp = "404"
     /\ \A t \in Viewers :
          (vw[t].out # "404" /\ vw'[t].out = "404") =>
            /\ vw[t].pc = "idle" /\ vw'[t].pc = "done"
            /\ UNCHANGED <<portalMacs, occupied, streams, sess, lock>>]_vars

\* a play request and an HLS request were both answered 404 while a stream is running
\* and the MAC order has been rotated
C13_Witness ==
  \E r, o \in Reqs, t \in Viewers :
    /\ rq[r].pc = "done" /\ rq[r].portal = "unknown" /\ rq[r].resp = "404"
    /\ vw[t].pc = "done" /\ vw[t].out = "404"
    /\ rq[o].pc = "streaming" /\ occupied # <<>>
    /\ portalMacs # [i \in 1..NumMacs |-> i]

\* ------------------------------------------------------------ failure edges
\* C14: a play request for a configured portal ends as a stream, as a redirect or as
\* the 503 of the exhausted loop, whatever the portal calls returned
C14_ReadyOrExhausted ==
  \A r \in Reqs :
    (rq[r].pc = "done" /\ rq[r].portal = "known") =>
      rq[r].resp \in {"stream", "redirect", "503"}

\* ---------------------------------------------------------------- C15
\* the sessions that have occupied a slot and not yet released it
Holding(r) == rq[r].proc # "none" /\ rq[r].pc # "done"

TrackerExact ==
  \A e \in Range(occupied) \cup {StreamInfo(rq[r]) : r \in {h \in Threads : Holding(h)}} :
    Cardinality({i \in 1..Len(occupied) : occupied[i] = e})
      = Cardinality({r \in Threads : Holding(r) /\ StreamInfo(rq[r]) = e})

\* C15: under any interleaving of occupy and release the list holds exactly the entries
\* of the sessions that occupied and have not released, and the count with which
\* isMacFree leaves its loop is the number of entries the list held for the MAC at some
\* moment of the loop
C15_TrackerConsistent ==
  [][/\ TrackerExact
     /\ \A r \in Threads :
          rq[r].pc = "scan" /\ rq'[r].pc # "scan"
            => rq[r].count >= obs[r].lo /\ rq[r].count <= obs[r].hi]_vars

\* ---------------------------------------------------------------- C16
EachMacOnce(ms) == \A m \in Macs : Cardinality({i \in 1..Len(ms) : ms[i] = m}) = 1

\* C16: under concurrent rotations the MAC order a request takes its snapshot of holds
\* every configured MAC exactly once, and no call of moveMac raises
C16_RotationNeverCorrupts ==
  [][\A r \in Reqs :
       /\ (rq[r].pc = "idle" /\ rq'[r].portal = "known") => EachMacOnce(portalMacs)
       /\ (rq[r].pc = "mvdel" /\ rq'[r].pc # "mvdel") => rq[r].mac \in Range(portalMacs)]_vars

\* ---------------------------------------------------------------- C17
\* C17: the check and the occupy are two steps: every occupy is made by a request whose
\* isMacFree returned on a count below the limit, and it appends to the list whatever
\* the list holds by then; so two requests that both saw the MAC free both occupy it
\* (C17_Witness: more entries for the MAC than the limit)
C17_CheckThenOccupy ==
  [][\A r \in Reqs :
       (rq[r].pc = "ready" /\ rq'[r].pc # "ready") =>
         LET n == Len(rq[r].log)
         IN  /\ n > 0
             /\ rq[r].log[n].mac = rq[r].mac /\ rq[r].log[n].res = "ok"
             /\ conf.k > 0 => rq[r].log[n].seen < conf.k
             /\ occupied' = Append(occupied, StreamInfo(rq'[r]))]_vars

\* two streams of two requests hold the same MAC with a limit of k > 0, and the list
\* has more than k entries for it
C17_Witness ==
  \E r, o \in Reqs :
    /\ r # o /\ conf.k > 0
    /\ rq[r].pc = "streaming" /\ rq[o].pc = "streaming" /\ rq[r].mac = rq[o].mac
    /\ EntriesFor(occupied, rq[r].mac) > conf.k

\* ------------------------------------------------------------ skipped candidates
Skipped(q, i) == q.log[i].res = "skipped"

\* C18: with a limit k set, a candidate for which isMacFree counted k entries or more
\* gets no portal call and no probe, and the request goes on to the next candidate of
\* its snapshot: it is not answered 503 while candidates are left
C18_SkipAdvances ==
  \A r \in Reqs :
    /\ \A i \in 1..Len(rq[r].log) :
         (conf.k # 0 /\ rq[r].log[i].seen >= conf.k) => Skipped(rq[r], i)
    /\ (rq[r].pc = "done" /\ rq[r].resp = "503" /\ rq[r].log # <<>>
          /\ Skipped(rq[r], Len(rq[r].log)))
         => Len(rq[r].log) = Len(rq[r].snap)

\* C19: with "try all macs" off, a request that was not answered by a stream, a
\* redirect or an error has attempted exactly one MAC, unless every candidate of its
\* snapshot was skipped
C19_StopsAfterFirstAttempt ==
  \A r \in Reqs :
    (~conf.tryAll /\ rq[r].pc = "done" /\ rq[r].resp = "503" /\ rq[r].snap # <<>>) =>
      LET attempted == {i \in 1..Len(rq[r].log) : ~Skipped(rq[r], i)}
      IN  /\ Cardinality(attempted) <= 1
          /\ attempted = {} => Len(rq[r].log) = Len(rq[r].snap)

\* C20: a handler calls moveMac only for a candidate it attempted and that failed,
\* never for one it skipped
C20_SkippedNotRotated ==
  [][\A r \in Reqs :
       (rq[r].pc = "mvdel" /\ rq[r].proc = "none" /\ rq'[r].pc = "mvins") =>
         /\ rq[r].log # <<>>
         /\ Failed(rq[r].log[Len(rq[r].log)].res)]_vars

\* ---------------------------------------------------------------- C21
\* C21: when the read loop stops, the generator goes to moveMac if and only if the
\* process has exited with a non-zero code, and a session changes the MAC order only
\* then: an exit with code 0 and a client that went away leave the order as it is
C21_RotateIffNonZeroExit ==
  [][\A r \in Reqs :
       /\ rq[r].pc = "streaming" =>
            (rq'[r].pc = "mvdel" <=> rq'[r].proc = "exit1")
       /\ (rq[r].proc # "none" /\ portalMacs' # portalMacs) => rq[r].proc = "exit1"]_vars

\* ---------------------------------------------------------------- C22
LastRes(q) == q.log[Len(q.log)].res

\* C22: a MAC whose channel list lacks the channel takes the edge a MAC without a token
\* takes: it is rotated to the back, with "try all macs" on the next candidate of the
\* snapshot is tried, and a request for which every MAC lacked the channel is answered
\* 503 without a process
C22_ChannelMissLikeAuthFailure ==
  \A r \in Reqs :
    LET q == rq[r]
    IN  /\ q.pc = "loop" =>
             \A streamed \in BOOLEAN :
               AfterCalls(q, q.snap[q.idx], "nochannel", streamed, FALSE)
                 = AfterCalls(q, q.snap[q.idx], "notoken", streamed, FALSE)
        /\ (q.log # <<>> /\ LastRes(q) = "nochannel" /\ q.pc \in {"loop", "done"}) =>
             /\ q.rot.mac = q.log[Len(q.log)].mac
             /\ RotatedToBack(q.rot.pre, q.rot.mac, portalMacs)
        /\ \A i \in 1..Len(q.log) :
             (conf.tryAll /\ q.log[i].res = "nochannel" /\ i < Len(q.snap)) =>
               Len(q.log) > i \/ q.pc \in {"mvdel", "mvins", "loop"}
        /\ (q.pc = "done" /\ q.log # <<>>
              /\ \A i \in 1..Len(q.log) : q.log[i].res = "nochannel") =>
             /\ q.resp = "503" /\ q.proc = "none"
             /\ conf.tryAll => Len(q.log) = Len(q.snap)

\* the channel was in no MAC's list: both MACs were tried and rotated, the answer is 503
C22_Witness ==
  \E r \in Reqs :
    /\ rq[r].pc = "done" /\ rq[r].resp = "503"
    /\ Len(rq[r].log) = NumMacs
    /\ \A i \in 1..NumMacs : rq[r].log[i].res = "nochannel"
    /\ rq[r].rot.mac = rq[r].log[NumMacs].mac

\* ---------------------------------------------------------------- C23
\* the candidates considered so far are the first MACs of the snapshot, in its order,
\* each once
SnapshotPrefix(q) ==
  /\ Len(q.log) <= Len(q.snap)
  /\ \A i \in 1..Len(q.log) : q.log[i].mac = q.snap[i]
  /\ \A i, j \in 1..Len(q.log) : q.log[i].mac = q.log[j].mac => i = j

\* C23: a request goes through the snapshot of the MAC order it took at its start,
\* every MAC once and in that order whatever is rotated meanwhile, and so ends as a
\* stream, a redirect or the 503 of the exhausted loop within as many iterations as
\* the snapshot has MACs
C23_SnapshotBoundsAttempt ==
  \A r \in Reqs :
    /\ SnapshotPrefix(rq[r])
    /\ (rq[r].pc = "done" /\ rq[r].portal = "known") =>
         rq[r].resp \in {"stream", "redirect", "503"}

\* ---------------------------------------------------------------- C24
\* C24: while the sweep is taking a session down (its process not yet ended or its
\* temp directory not yet deleted) the monitor thread does not hold the lock, so
\* start_stream and get_file can take it
C24_TeardownOutsideLock ==
  (sw.pc = "teardown" /\ sw.cur \in Registered
     /\ (sess[streams[sw.cur].id].proc = "running" \/ sess[streams[sw.cur].id].dir))
    => (Sweeper \notin lock /\ CanAcquire(lock))

\* ---------------------------------------------------------------- C25
\* C25: the scan of a sweep marks every transcoded session whose process has ended,
\* however recently it was accessed, and a passthrough session exactly when it has
\* been idle for longer than the timeout; a marked key leaves the list only by being
\* taken down or because it is registered no more, and a key taken down is
\* registered no more
C25_SweepRemovesDeadSessions ==
  [][/\ (sw.pc = "scan" /\ sw'.pc = "stop") =>
          \A k \in Registered :
            /\ (~streams[k].passthrough /\ sess[streams[k].id].proc = "exited")
                 => k \in sw'.todo
            /\ streams[k].passthrough
                 => (k \in sw'.todo <=> sw.t - streams[k].last > InactiveTimeout)
     /\ sw.pc = "stop" =>
          \A k \in sw.todo \ sw'.todo : sw'.cur = k \/ k \notin Registered
     /\ (sw.pc = "teardown" /\ sw'.pc # "teardown") =>
          /\ streams'[sw.cur] = NoStream
          /\ sess'[streams[sw.cur].id] = NoSession]_vars

\* the sweep is taking down a transcoded session whose process has ended and which was
\* accessed at the time of the scan, while a passthrough session stays registered
C25_Witness ==
  \E k \in Registered :
    /\ sw.pc = "teardown" /\ sw.cur \in Registered /\ k # sw.cur
    /\ ~streams[sw.cur].passthrough
    /\ sess[streams[sw.cur].id].proc = "exited"
    /\ streams[sw.cur].last = now
    /\ streams[k].passthrough /\ k \notin sw.todo

\* ---------------------------------------------------------------- C26
\* C26: start_stream for a key whose registered session is transcoded and whose process
\* has ended does not hand out that session: the key gets a session under a new id
C26_DeadSessionReplaced ==
  [][\A t \in Viewers :
       (/\ vw[t].pc = "check" /\ vw'[t].pc # "check"
        /\ vw[t].key \in Registered
        /\ ~streams[vw[t].key].passthrough
        /\ sess[streams[vw[t].key].id].proc = "exited")
         => /\ vw'[t].out # "reused"
            /\ vw'[t].id # 0 /\ vw'[t].id # streams[vw[t].key].id]_vars

\* ---------------------------------------------------------------- C27
\* C27: when Popen fails in start_stream the caller gets the error, which the route
\* answers with 500; the registry is as it was, without the key, the temp directory
\* made for the attempt is gone, and the lock is released
C27_SpawnFailureLeavesNothing ==
  [][\A t \in Viewers :
       (vw[t].pc = "spawn" /\ vw'[t].out = "error") =>
         /\ HlsStatus(vw'[t].out) = "500"
         /\ streams' = streams /\ vw[t].key \notin Registered
         /\ sess'[vw[t].id] = NoSession
         /\ \A i \in SessionIds \ {vw[t].id} : sess'[i] = sess[i]
         /\ t \notin lock']_vars

\* a spawn has failed for one key while the session of another key is registered: no
\* directory and no process exists beyond that session's
C27_Witness ==
  \E t \in Viewers, k \in Registered :
    /\ vw[t].pc = "done" /\ vw[t].out = "error" /\ vw[t].key # k
    /\ vw[t].key \notin Registered
    /\ \A i \in SessionIds : sess[i] # NoSession => i = streams[k].id

\* ---------------------------------------------------------------- C28
\* C28: a fetch through the route ends with the file or with an answer of the route's
\* own (404, 503, 500), never with an error nobody handles, whatever the sweep does to
\* the session meanwhile
C28_FetchNeverRaises ==
  \A t \in Viewers : vw[t].out # "raised"

\* ---------------------------------------------------------------- C29
\* C29: when the sweep removes a session that is alive (passthrough, or its process
\* running), the session is idle for longer than the timeout at that moment: one that
\* was accessed after the scan is kept
C29_RemovedOnlyWhileIdle ==
  [][(/\ sw.pc = "teardown" /\ sw'.pc # "teardown"
      /\ \/ streams[sw.cur].passthrough
         \/ sess[streams[sw.cur].id].proc = "running")
       => IsInactive(now, streams[sw.cur].last, InactiveTimeout)]_vars

\* ---------------------------------------------------------------- C30
\* C30: the XC user never has more active connections registered than max_connections
C30_ConnectionLimit == Cardinality(Active) <= xc.max
====
